---- MODULE Spec2Model ----
(***************************************************************************)
(* LyricSync backend: the transcription service (TranscriptionService),    *)
(* the Whisper model manager (WhisperModelManager) and the transcription   *)
(* text cleaner (TranscriptionCleaner).                                    *)
(*                                                                         *)
(* Texts are sequences of one-character strings, so that the regular       *)
(* expressions of the cleaner are modelled by what they match.             *)
(***************************************************************************)
EXTENDS Integers, Sequences, FiniteSets, TLC

VARIABLES
  _model,        \* WhisperModelManager._model: the current handle
  _model_size,   \* WhisperModelManager._model_size: the recorded size
  _device,       \* WhisperModelManager._device
  req,           \* one record per transcribe_file call in flight
  disk,          \* names of the temporary files that exist on disk
  caller,        \* one record per direct call of a manager operation
  api,           \* TranscriptionAPI: being constructed, serving, or failed
  text,          \* the cleaner's input
  cleaned,       \* clean_text(text)
  recleaned,     \* clean_text(clean_text(text))
  cpc            \* position of the cleaner run

vars == <<_model, _model_size, _device, req, disk, caller, api, text, cleaned, recleaned, cpc>>

\* Python's None, where a string or a text is expected, and where an object is
None == "None"
NoObject == [none |-> TRUE]

(***************************************************************************)
(* Characters                                                              *)
(***************************************************************************)
LowerCase == <<"a","b","c","d","e","f","g","h","i","j","k","l","m",
               "n","o","p","q","r","s","t","u","v","w","x","y","z">>
UpperCase == <<"A","B","C","D","E","F","G","H","I","J","K","L","M",
               "N","O","P","Q","R","S","T","U","V","W","X","Y","Z">>
Digits == {"0","1","2","3","4","5","6","7","8","9"}

Range(s) == {s[i] : i \in DOMAIN s}

LowerLetters == Range(LowerCase)
UpperLetters == Range(UpperCase)

IsLetter(c) == c \in LowerLetters \/ c \in UpperLetters

\* regex \w ("Atilde" stands for the one non-ASCII letter of the patterns)
IsWordChar(c) == IsLetter(c) \/ c \in Digits \/ c = "_" \/ c = "Atilde"

\* regex \s and str.split()/str.strip() whitespace
IsSpace(c) == c \in {" ", "\n", "\t", "\r", "nbsp"}

LowerOf ==
  [c \in UpperLetters |->
     LowerCase[CHOOSE i \in DOMAIN UpperCase : UpperCase[i] = c]]

\* str.lower() of one character, as re.IGNORECASE compares
Lower(c) == IF c \in UpperLetters THEN LowerOf[c] ELSE c

\* the character at position i, None outside the text
At(t, i) == IF i >= 1 /\ i <= Len(t) THEN t[i] ELSE None

\* regex \b at position i (between t[i-1] and t[i])
WordBoundary(t, i) == IsWordChar(At(t, i - 1)) # IsWordChar(At(t, i))

RECURSIVE SkipSpaces(_, _)
\* regex \s* from position i: the first position that holds no whitespace
SkipSpaces(t, i) ==
  IF i <= Len(t) /\ IsSpace(t[i]) THEN SkipSpaces(t, i + 1) ELSE i

RECURSIVE SkipWord(_, _)
\* regex \w* from position i
SkipWord(t, i) ==
  IF i <= Len(t) /\ IsWordChar(t[i]) THEN SkipWord(t, i + 1) ELSE i

\* the literal lit matches at position i (ic: ignoring case)
MatchesAt(t, i, lit, ic) ==
  /\ i >= 1
  /\ i + Len(lit) - 1 <= Len(t)
  /\ \A k \in 1..Len(lit) :
       IF ic THEN Lower(t[i + k - 1]) = Lower(lit[k]) ELSE t[i + k - 1] = lit[k]

(***************************************************************************)
(* TranscriptionCleaner (text_processing.py)                               *)
(***************************************************************************)
Max(S) == CHOOSE m \in S : \A n \in S : n <= m
Min(S) == CHOOSE m \in S : \A n \in S : m <= n

RECURSIVE RepeatEnds(_, _, _, _)
\* regex (?:\s+\1)* taken greedily from position j, g being group 1: the
\* position after each successive repetition
RepeatEnds(t, j, g, ic) ==
  LET k == SkipSpaces(t, j) IN
  IF IsSpace(At(t, j)) /\ MatchesAt(t, k, g, ic)
    THEN <<k + Len(g)>> \o RepeatEnds(t, k + Len(g), g, ic)
    ELSE <<>>

\* the group (\w{1,n}) at position i when \b precedes it and \s+ follows it:
\* the whole word at i, of at most n characters; <<>> when there is none
ShortWordAt(t, i, n) ==
  LET e == SkipWord(t, i) IN
  IF WordBoundary(t, i) /\ e - i >= 1 /\ e - i <= n /\ IsSpace(At(t, e))
    THEN SubSeq(t, i, e - 1)
    ELSE <<>>

\* r'\b(\w{1,3})(?:\s+\1){10,}\b' with re.IGNORECASE at position i: the
\* position after the match, 0 when it does not match
SyllableRunEnd(t, i) ==
  LET g    == ShortWordAt(t, i, 3)
      ends == RepeatEnds(t, i + Len(g), g, TRUE)
      ok   == {m \in 10..Len(ends) : WordBoundary(t, ends[m])}
  IN IF g # <<>> /\ ok # {} THEN ends[Max(ok)] ELSE 0

RECURSIVE SingleCharEnds(_, _, _)
\* regex (?:\1\s+)* taken greedily from position j, c being group 1
SingleCharEnds(t, j, c) ==
  IF At(t, j) = c /\ IsSpace(At(t, j + 1))
    THEN LET e == SkipSpaces(t, j + 1) IN <<e>> \o SingleCharEnds(t, e, c)
    ELSE <<>>

\* r'\b(\w)\s+(?:\1\s+){5,}' at position i: the position after the match,
\* 0 when it does not match
SingleCharRunEnd(t, i) ==
  LET ends == SingleCharEnds(t, SkipSpaces(t, i + 1), t[i]) IN
  IF /\ WordBoundary(t, i) /\ IsWordChar(At(t, i)) /\ IsSpace(At(t, i + 1))
     /\ Len(ends) >= 5
    THEN ends[Len(ends)] ELSE 0

\* r'\b(\w{1,4})(?:\s+\1){8,}(?:\s|$)' at position i: the position after
\* the match, 0 when it does not match
ShortWordRunEnd(t, i) ==
  LET g    == ShortWordAt(t, i, 4)
      ends == RepeatEnds(t, i + Len(g), g, FALSE)
      ok   == {m \in 8..Len(ends) :
                 IsSpace(At(t, ends[m])) \/ ends[m] = Len(t) + 1}
      e    == ends[Max(ok)]
  IN IF g # <<>> /\ ok # {}
       THEN (IF IsSpace(At(t, e)) THEN e + 1 ELSE e)
       ELSE 0

RECURSIVE SubSyllableRuns(_, _)
\* re.sub(r'\b(\w{1,3})(?:\s+\1){10,}\b', r'\1', text, flags=re.IGNORECASE)
SubSyllableRuns(t, i) ==
  LET at == {p \in i..Len(t) : SyllableRunEnd(t, p) > 0}
      p  == Min(at)
  IN IF at = {} THEN SubSeq(t, i, Len(t))
     ELSE SubSeq(t, i, p - 1) \o ShortWordAt(t, p, 3)
            \o SubSyllableRuns(t, SyllableRunEnd(t, p))

RECURSIVE SubSingleCharRuns(_, _)
\* re.sub(r'\b(\w)\s+(?:\1\s+){5,}', r'\1 ', text)
SubSingleCharRuns(t, i) ==
  LET at == {p \in i..Len(t) : SingleCharRunEnd(t, p) > 0}
      p  == Min(at)
  IN IF at = {} THEN SubSeq(t, i, Len(t))
     ELSE SubSeq(t, i, p - 1) \o <<t[p], " ">>
            \o SubSingleCharRuns(t, SingleCharRunEnd(t, p))

RECURSIVE SubShortWordRuns(_, _)
\* re.sub(r'\b(\w{1,4})(?:\s+\1){8,}(?:\s|$)', ' ', text)
SubShortWordRuns(t, i) ==
  LET at == {p \in i..Len(t) : ShortWordRunEnd(t, p) > 0}
      p  == Min(at)
  IN IF at = {} THEN SubSeq(t, i, Len(t))
     ELSE SubSeq(t, i, p - 1) \o <<" ">>
            \o SubShortWordRuns(t, ShortWordRunEnd(t, p))

\* _remove_repetitive_patterns without its first substitution
_remove_repetitive_patterns_NoSyllableRule(t) ==
  SubShortWordRuns(SubSingleCharRuns(t, 1), 1)

\* TranscriptionCleaner._remove_repetitive_patterns
_remove_repetitive_patterns(t) ==
  SubShortWordRuns(SubSingleCharRuns(SubSyllableRuns(t, 1), 1), 1)

RECURSIVE SkipNonSpaces(_, _)
SkipNonSpaces(t, i) ==
  IF i <= Len(t) /\ ~IsSpace(t[i]) THEN SkipNonSpaces(t, i + 1) ELSE i

\* the positions 1..Len(t), in order
Positions(t) == [i \in 1..Len(t) |-> i]

\* str.split(): the maximal runs of non-whitespace, in order
Split(t) ==
  LET starts == SelectSeq(Positions(t),
                  LAMBDA i : ~IsSpace(t[i]) /\ (i = 1 \/ IsSpace(t[i - 1])))
  IN [k \in 1..Len(starts) |->
        SubSeq(t, starts[k], SkipNonSpaces(t, starts[k]) - 1)]

RECURSIVE Join(_)
\* ' '.join(words)
Join(words) ==
  IF words = <<>> THEN <<>>
  ELSE IF Len(words) = 1 THEN words[1]
  ELSE LET h == Len(words) \div 2 IN
       Join(SubSeq(words, 1, h)) \o <<" ">>
         \o Join(SubSeq(words, h + 1, Len(words)))

\* the loop of _remove_trailing_repetitions: how many words at the end of
\* words[1..i] equal the last word
RepetitionCount(words, i) ==
  i - Max({0} \cup {k \in 1..i : words[k] # words[Len(words)]})

\* r'\s+([a-zA-Z])(?:\s+\1){2,}\s*$' matches at position i
TrailingLettersAt(t, i) ==
  LET j    == SkipSpaces(t, i)
      ends == RepeatEnds(t, j + 1, <<At(t, j)>>, FALSE)
  IN /\ IsSpace(At(t, i))
     /\ IsLetter(At(t, j))
     /\ \E m \in 2..Len(ends) : SkipSpaces(t, ends[m]) = Len(t) + 1

\* re.sub(r'\s+([a-zA-Z])(?:\s+\1){2,}\s*$', '', text)
SubTrailingLetters(t) ==
  LET at == {i \in 1..Len(t) : TrailingLettersAt(t, i)} IN
  IF at = {} THEN t ELSE SubSeq(t, 1, Min(at) - 1)

\* a slice that drops every occurrence of the repeated word
TrimRepeatedEnding_DropAll(t, words) ==
  LET repetition_count == RepetitionCount(words, Len(words)) IN
  IF repetition_count > 5
    THEN Join(SubSeq(words, 1, Len(words) - repetition_count))
    ELSE t

\* words[:-repetition_count + 1] joined, when repetition_count > 5
TrimRepeatedEnding(t, words) ==
  LET repetition_count == RepetitionCount(words, Len(words)) IN
  IF repetition_count > 5
    THEN Join(SubSeq(words, 1, Len(words) - repetition_count + 1))
    ELSE t

\* TranscriptionCleaner._remove_trailing_repetitions
_remove_trailing_repetitions(t) ==
  LET words == Split(t) IN
  IF Len(words) <= 4 THEN t
  ELSE SubTrailingLetters(TrimRepeatedEnding(t, words))

\* re.sub(r'\s+', ' ', text): each maximal whitespace run becomes one space
SubSpaces(t) ==
  LET kept == SelectSeq(Positions(t),
                LAMBDA i : ~IsSpace(t[i]) \/ i = 1 \/ ~IsSpace(t[i - 1]))
  IN [k \in 1..Len(kept) |-> IF IsSpace(t[kept[k]]) THEN " " ELSE t[kept[k]]]

\* a _cleanup_spaces that leaves whitespace as it finds it
_cleanup_spaces_KeepsRuns(t) == t

\* TranscriptionCleaner._cleanup_spaces
_cleanup_spaces(t) == SubSpaces(t)

\* str.strip()
Strip(t) ==
  LET b  == SkipSpaces(t, 1)
      es == {e \in b..Len(t) : ~IsSpace(t[e])}
  IN IF es = {} THEN <<>> ELSE SubSeq(t, b, Max(es))

(***************************************************************************)
(* The literal pieces of TranscriptionCleaner._subtitle_patterns; .*? lies  *)
(* between consecutive pieces and \.? ends each pattern.                    *)
(***************************************************************************)
LitSottotitoliCreati ==
  <<"s","o","t","t","o","t","i","t","o","l","i"," ","c","r","e","a","t","i",
    " ","d","a","l","l","a"," ","c","o","m","u","n","i","t","Atilde","nbsp",
    " ","a","m","a","r","a",".","o","r","g">>
LitSubtitlesCreatedBy ==
  <<"s","u","b","t","i","t","l","e","s"," ","c","r","e","a","t","e","d"," ",
    "b","y">>
LitCommunity ==
  <<"c","o","m","m","u","n","i","t","y">>
LitAmaraOrg ==
  <<"a","m","a","r","a",".","o","r","g">>
LitSottotitoliRevisione ==
  <<"s","o","t","t","o","t","i","t","o","l","i"," ","e"," ","r","e","v","i",
    "s","i","o","n","e"," ","a"," ","c","u","r","a"," ","d","i">>
LitSubtitlesRevision ==
  <<"s","u","b","t","i","t","l","e","s"," ","a","n","d"," ","r","e","v","i",
    "s","i","o","n"," ","b","y">>
LitTraduzione ==
  <<"t","r","a","d","u","z","i","o","n","e"," ","e"," ","a","d","a","t","t",
    "a","m","e","n","t","o">>
LitTranslation ==
  <<"t","r","a","n","s","l","a","t","i","o","n"," ","a","n","d"," ","a","d",
    "a","p","t","a","t","i","o","n">>
LitQtss ==
  <<"q","t","s","s">>

\* TranscriptionCleaner.__init__: self._subtitle_patterns
_subtitle_patterns ==
  << <<LitSottotitoliCreati, LitQtss>>,
     <<LitSubtitlesCreatedBy, LitCommunity, LitAmaraOrg, LitQtss>>,
     <<LitSottotitoliRevisione, LitQtss>>,
     <<LitSubtitlesRevision, LitQtss>>,
     <<LitTraduzione, LitQtss>>,
     <<LitTranslation, LitQtss>> >>

\* the first position >= j where lit occurs ignoring case, 0 when none: what
\* a lazy .*? followed by lit reaches (re.DOTALL: any character is skipped)
FindFrom(t, j, lit) ==
  LET at == {k \in j..(Len(t) - Len(lit) + 1) : MatchesAt(t, k, lit, TRUE)} IN
  IF at = {} THEN 0 ELSE Min(at)

RECURSIVE CreditEndFrom(_, _, _, _)
\* pieces n.. of a pattern from position pos, then \.? : the position after
\* the match, 0 when it does not match
CreditEndFrom(t, pos, pieces, n) ==
  IF n > Len(pieces)
    THEN (IF At(t, pos) = "." THEN pos + 1 ELSE pos)
    ELSE LET k == FindFrom(t, pos, pieces[n]) IN
         IF k = 0 THEN 0
         ELSE CreditEndFrom(t, k + Len(pieces[n]), pieces, n + 1)

\* one pattern at position i
CreditEnd(t, i, pieces) ==
  IF MatchesAt(t, i, pieces[1], TRUE)
    THEN CreditEndFrom(t, i + Len(pieces[1]), pieces, 2)
    ELSE 0

RECURSIVE SubCredit(_, _, _)
\* re.sub(pattern, '', text, flags=re.IGNORECASE | re.DOTALL)
SubCredit(t, i, pieces) ==
  LET at == {p \in i..Len(t) : CreditEnd(t, p, pieces) > 0}
      p  == Min(at)
  IN IF at = {} THEN SubSeq(t, i, Len(t))
     ELSE SubSeq(t, i, p - 1) \o SubCredit(t, CreditEnd(t, p, pieces), pieces)

RECURSIVE SubCredits(_, _)
\* the loop over self._subtitle_patterns, from pattern n on
SubCredits(t, n) ==
  IF n > Len(_subtitle_patterns) THEN t
  ELSE SubCredits(SubCredit(t, 1, _subtitle_patterns[n]), n + 1)

\* TranscriptionCleaner._remove_subtitle_credits
_remove_subtitle_credits(t) == SubCredits(t, 1)

\* clean_text giving the empty text for None
clean_text_EmptyForNone(t) ==
  IF t = None THEN <<>>
  ELSE Strip(_cleanup_spaces(_remove_trailing_repetitions(
         _remove_repetitive_patterns(_remove_subtitle_credits(t)))))

\* TranscriptionCleaner.clean_text (None and '' are returned as they are)
clean_text(t) ==
  IF t = None \/ t = <<>> THEN t
  ELSE Strip(_cleanup_spaces(_remove_trailing_repetitions(
         _remove_repetitive_patterns(_remove_subtitle_credits(t)))))

(***************************************************************************)
(* Configuration (core/config.py)                                          *)
(***************************************************************************)
QualityLevel == {"FAST", "BALANCED", "HIGH", "BEST"}
ModelSize == {"SMALL", "MEDIUM", "LARGE"}

\* ModelSize.<member>.value
ModelSizeValue ==
  [ms \in ModelSize |->
     CASE ms = "SMALL" -> "small" [] ms = "MEDIUM" -> "medium"
       [] ms = "LARGE" -> "large-v3"]

\* AppConfig.whisper_model
whisper_model == "small"

\* AppConfig.max_file_size, in bytes
max_file_size == 104857600

\* AppConfig.supported_formats
supported_formats ==
  {".mp3", ".wav", ".m4a", ".flac", ".ogg", ".wma", ".aac", ".mp4", ".mov", ".avi"}

(***************************************************************************)
(* WhisperModelManager (models/whisper_manager.py).  A handle is what      *)
(* whisper.load_model(name, device) returns: the weight set it holds and   *)
(* the device it is bound to.  The operations take the manager's state     *)
(* m = [model, size, device] and return its next state together with the   *)
(* returned handle, what the loader did and the accelerator calls made.    *)
(***************************************************************************)
Handle(name, device) == [weights |-> name, device |-> device]

\* the table quality_models of load_quality_model
quality_models ==
  [q \in QualityLevel |->
     CASE q = "FAST" -> "tiny" [] q = "BALANCED" -> "base"
       [] q = "HIGH" -> "small" [] q = "BEST" -> "medium"]

\* WhisperModelManager._log_gpu_memory (and TranscriptionService's): the
\* memory counters are read on the accelerator only
_log_gpu_memory(device) == IF device = "cuda" THEN <<"memory_query">> ELSE <<>>

\* WhisperModelManager.cleanup_gpu_memory
cleanup_gpu_memory(device) ==
  IF device = "cuda" THEN <<"empty_cache">> \o _log_gpu_memory(device) ELSE <<>>

\* the size a call resolves: "Use explicit model size if provided, otherwise
\* use quality mapping"
SelectedModel(quality, model_size) ==
  IF model_size # None THEN ModelSizeValue[model_size] ELSE quality_models[quality]

\* WhisperModelManager._setup_device: torch.cuda.is_available() decides
_setup_device(cuda_available) == IF cuda_available THEN "cuda" ELSE "cpu"

\* load_model returning None where the load fails
load_model_SwallowsFailure(m, model_name, ok) ==
  LET name == IF model_name = None THEN whisper_model ELSE model_name IN
  IF ok
    THEN [device |-> m.device, model |-> Handle(name, m.device), size |-> name,
          ret |-> Handle(name, m.device), load |-> "ok", selected |-> name,
          gpu |-> _log_gpu_memory(m.device), raised |-> FALSE]
    ELSE [device |-> m.device, model |-> m.model, size |-> name,
          ret |-> NoObject, load |-> "failed", selected |-> name,
          gpu |-> <<>>, raised |-> FALSE]

\* WhisperModelManager.load_model; ok: whisper.load_model succeeds.
\* self._model_size is assigned before the load; a failed load raises
\* RuntimeError
load_model(m, model_name, ok) ==
  LET name == IF model_name = None THEN whisper_model ELSE model_name IN
  IF ok
    THEN [device |-> m.device, model |-> Handle(name, m.device), size |-> name,
          ret |-> Handle(name, m.device), load |-> "ok", selected |-> name,
          gpu |-> _log_gpu_memory(m.device), raised |-> FALSE]
    ELSE [device |-> m.device, model |-> m.model, size |-> name,
          ret |-> NoObject, load |-> "failed", selected |-> name,
          gpu |-> <<>>, raised |-> TRUE]

\* WhisperModelManager.get_device_info: the fields read from the manager
get_device_info(m) == [device |-> m.device, model_size |-> m.size]

\* ReturnCached calling the loader all the same
ReturnCached_Reloads(m, selected) ==
  [device |-> m.device, model |-> Handle(selected, m.device), size |-> selected,
   ret |-> Handle(selected, m.device),
   load |-> "ok", selected |-> selected, gpu |-> <<>>]

\* selected_model == self._model_size: return self._model
ReturnCached(m, selected) ==
  [device |-> m.device, model |-> m.model, size |-> m.size, ret |-> m.model,
   load |-> "none", selected |-> selected, gpu |-> <<>>]

\* ReturnFallback recording the size that was asked for
ReturnFallback_RecordsAskedSize(m, selected) ==
  [device |-> m.device, model |-> m.model, size |-> selected, ret |-> m.model,
   load |-> "failed", selected |-> selected, gpu |-> <<>>]

\* ReturnFallback loading the current size on the CPU instead
ReturnFallback_FallsBackToCpu(m, selected) ==
  [device |-> "cpu", model |-> Handle(m.size, "cpu"), size |-> m.size,
   ret |-> Handle(m.size, "cpu"),
   load |-> "failed", selected |-> selected, gpu |-> <<>>]

\* the except branch of both loaders: log, return self._model
ReturnFallback(m, selected) ==
  [device |-> m.device, model |-> m.model, size |-> m.size, ret |-> m.model,
   load |-> "failed", selected |-> selected, gpu |-> <<>>]

\* load_quality_model, the load succeeded:
\* return whisper.load_model(selected_model, device=self._device)
QualityLoaded(m, selected) ==
  [device |-> m.device, model |-> m.model, size |-> m.size, ret |-> Handle(selected, m.device),
   load |-> "ok", selected |-> selected, gpu |-> <<>>]

\* SizeLoaded with the second assignment left out
SizeLoaded_KeepsRecordedSize(m, selected) ==
  [device |-> m.device, model |-> Handle(selected, m.device), size |-> m.size,
   ret |-> Handle(selected, m.device),
   load |-> "ok", selected |-> selected, gpu |-> _log_gpu_memory(m.device)]

\* load_model_by_size, the load succeeded: self._model and self._model_size
\* are assigned, the memory is logged, self._model is returned
SizeLoaded(m, selected) ==
  [device |-> m.device, model |-> Handle(selected, m.device), size |-> selected,
   ret |-> Handle(selected, m.device),
   load |-> "ok", selected |-> selected, gpu |-> _log_gpu_memory(m.device)]

\* WhisperModelManager.load_quality_model; ok: whisper.load_model succeeds
load_quality_model(m, quality, model_size, ok) ==
  LET selected_model == SelectedModel(quality, model_size) IN
  IF selected_model # m.size
    THEN (IF ok THEN QualityLoaded(m, selected_model)
                ELSE ReturnFallback(m, selected_model))
    ELSE ReturnCached(m, selected_model)

\* WhisperModelManager.load_model_by_size; ok: whisper.load_model succeeds
load_model_by_size(m, model_size, ok) ==
  LET model_name == ModelSizeValue[model_size] IN
  IF model_name # m.size
    THEN (IF ok THEN SizeLoaded(m, model_name)
                ELSE ReturnFallback(m, model_name))
    ELSE ReturnCached(m, model_name)

(***************************************************************************)
(* The manager built by TranscriptionAPI._initialize_services and then     *)
(* called directly: each caller makes one call of one operation.  The      *)
(* operations are plain functions that hold no await, so the event loop    *)
(* runs each call to its end before another starts; concurrent callers     *)
(* differ in their order.                                                  *)
(***************************************************************************)
NumCallers == 2
Callers == 1..NumCallers

NewCaller ==
  [pc |-> "new", op |-> None, quality |-> None, model_size |-> None,
   selected |-> None, load |-> None, ret |-> NoObject]

\* one call, from entry to return
Completed(c, op, quality, model_size, res) ==
  [c EXCEPT !.pc = "done", !.op = op, !.quality = quality,
            !.model_size = model_size, !.selected = res.selected,
            !.load = res.load, !.ret = res.ret]

\* a call of load_model_by_size(model_size)
CallLoadModelBySize(c) ==
  /\ api = "serving"
  /\ caller[c].pc = "new"
  /\ \E model_size \in ModelSize, ok \in BOOLEAN :
       LET res == load_model_by_size(
                    [model |-> _model, size |-> _model_size, device |-> _device],
                    model_size, ok)
       IN /\ _model' = res.model
          /\ _model_size' = res.size
          /\ _device' = res.device
          /\ caller' = [caller EXCEPT ![c] =
               Completed(@, "load_model_by_size", None, model_size, res)]
  /\ UNCHANGED <<req, disk, api, text, cleaned, recleaned, cpc>>

\* a call of load_quality_model(quality, model_size)
CallLoadQualityModel(c) ==
  /\ api = "serving"
  /\ caller[c].pc = "new"
  /\ \E quality \in QualityLevel, model_size \in ModelSize \cup {None},
        ok \in BOOLEAN :
       LET res == load_quality_model(
                    [model |-> _model, size |-> _model_size, device |-> _device],
                    quality, model_size, ok)
       IN /\ _model' = res.model
          /\ _model_size' = res.size
          /\ _device' = res.device
          /\ caller' = [caller EXCEPT ![c] =
               Completed(@, "load_quality_model", quality, model_size, res)]
  /\ UNCHANGED <<req, disk, api, text, cleaned, recleaned, cpc>>

\* the names load_model is called with: None is the configured default
ModelNames == {None, "tiny", "medium"}

\* a call of load_model(model_name), which returns or raises RuntimeError
CallLoadModel(c) ==
  /\ api = "serving"
  /\ caller[c].pc = "new"
  /\ \E model_name \in ModelNames, ok \in BOOLEAN :
       LET res == load_model(
                    [model |-> _model, size |-> _model_size, device |-> _device],
                    model_name, ok)
       IN /\ _model' = res.model
          /\ _model_size' = res.size
          /\ _device' = res.device
          /\ caller' = [caller EXCEPT ![c] =
               [Completed(@, "load_model", None, None, res) EXCEPT
                  !.pc = IF res.raised THEN "raised" ELSE "done"]]
  /\ UNCHANGED <<req, disk, api, text, cleaned, recleaned, cpc>>

\* a call of cleanup_gpu_memory()
CallCleanupGpuMemory(c) ==
  /\ api = "serving"
  /\ caller[c].pc = "new"
  /\ caller' = [caller EXCEPT ![c] =
       [@ EXCEPT !.pc = "done", !.op = "cleanup_gpu_memory", !.load = "none"]]
  /\ UNCHANGED <<_model, _model_size, _device, req, disk, api, text, cleaned, recleaned, cpc>>

\* a call of get_device_info()
CallGetDeviceInfo(c) ==
  /\ api = "serving"
  /\ caller[c].pc = "new"
  /\ caller' = [caller EXCEPT ![c] =
       [@ EXCEPT !.pc = "done", !.op = "get_device_info", !.load = "none",
                 !.ret = get_device_info(
                    [model |-> _model, size |-> _model_size, device |-> _device])]]
  /\ UNCHANGED <<_model, _model_size, _device, req, disk, api, text, cleaned, recleaned, cpc>>

\* TranscriptionAPI._initialize_services: WhisperModelManager(config) sets
\* the device and loads the default model; whatever it raises is raised on
\* as RuntimeError and no application is built
_initialize_services ==
  /\ api = "constructing"
  /\ \E cuda_available \in BOOLEAN, ok \in BOOLEAN :
       LET res == load_model(
                    [model |-> NoObject, size |-> None,
                     device |-> _setup_device(cuda_available)],
                    None, ok)
       IN /\ _device' = res.device
          /\ _model' = res.model
          /\ _model_size' = res.size
          /\ api' = IF res.raised THEN "failed" ELSE "serving"
  /\ UNCHANGED <<req, disk, caller, text, cleaned, recleaned, cpc>>

(***************************************************************************)
(* FileValidator (validation/file_validator.py)                            *)
(***************************************************************************)
\* an HTTPException; detail is the sequence of the pieces of its message,
\* the literal ones and the interpolated ones
HTTPException(status_code, detail) == [status_code |-> status_code, detail |-> detail]

Filenames == {"", "song.mp3", "SONG.MP3", "notes.txt", "song"}

\* Path(filename).suffix.lower()
SuffixLower ==
  [f \in Filenames |->
     CASE f = "song.mp3" -> ".mp3" [] f = "SONG.MP3" -> ".mp3"
       [] f = "notes.txt" -> ".txt" [] OTHER -> ""]

\* validate_file without _check_file_exists
validate_file_FormatOnly(filename) ==
  IF SuffixLower[filename] \notin supported_formats
    THEN HTTPException(400, <<"Unsupported file format ", SuffixLower[filename]>>)
  ELSE NoObject

\* FileValidator.validate_file: the exception it raises, None when it
\* returns (_check_file_size does nothing)
validate_file(filename) ==
  IF filename = "" THEN HTTPException(400, <<"No file provided">>)
  ELSE IF SuffixLower[filename] \notin supported_formats
    THEN HTTPException(400, <<"Unsupported file format ", SuffixLower[filename]>>)
  ELSE NoObject

(***************************************************************************)
(* TranscriptionService (services/transcription.py).  Each request is one  *)
(* call of transcribe_file, a coroutine on the server's single event loop: *)
(* it gives the loop up only at `await file.read()`, so between two        *)
(* requests' steps no other request is inside the part that follows.       *)
(*                                                                         *)
(* pc of a request: "new" not called yet, "read" suspended in file.read(), *)
(* "staged", "resolved", "transcribed", "cleaned" (return value computed,  *)
(* finally pending), "raised" (exception in flight, finally pending),      *)
(* "done" (text returned), "failed" (exception raised to the caller).      *)
(***************************************************************************)
NumReqs == 2
Reqs == 1..NumReqs

\* the payload lengths tried, around the ceiling
PayloadLengths == {0, max_file_size, max_file_size + 1}

\* what model.transcribe returns as result["text"]
TranscriptTexts ==
  { <<" ", "l", "a", " ", "l", "a">>,
    <<"x", " ", " ", "o", "h", " ", "o", "h", "\n">> }

\* what model.transcribe raises: the exception type and str(e)
RecognitionErrors ==
  { [type |-> "FileNotFoundError", str |-> "No such file or directory: 'ffmpeg'"],
    [type |-> "RuntimeError", str |-> "Failed to load audio: ffmpeg exited"],
    [type |-> "RuntimeError", str |-> "CUDA out of memory"] }

\* "ffmpeg" in str(e).lower()
MentionsFfmpeg(e) == e.str # "CUDA out of memory"

FailedToProcess == HTTPException(500, <<"Failed to process uploaded file">>)
FileTooLarge == HTTPException(400, <<"File too large. Maximum size: ", "100.0MB">>)

NewRequest ==
  [pc |-> "new", quality |-> None, model_size |-> None, asked |-> None,
   via |-> None, load |-> None, current_model |-> NoObject,
   used_model |-> NoObject,
   transcription |-> None, result |-> None, failure |-> NoObject,
   exc |-> NoObject, temp_file |-> NoObject,
   gpu |-> <<>>, options |-> NoObject]

\* Returned without the text computed
Returned_LosesResult(q, pc) ==
  [NewRequest EXCEPT !.pc = pc, !.failure = q.failure,
                     !.exc = q.exc, !.temp_file = q.temp_file]

\* what is left of a call once it has returned or raised: its outcome; the
\* name of the temporary file it created is kept to tell whose file is whose
Returned(q, pc) ==
  [NewRequest EXCEPT !.pc = pc, !.result = q.result, !.failure = q.failure,
                     !.exc = q.exc, !.temp_file = q.temp_file]

\* a request between the return of file.read() and the end of transcribe_file
Running(q) == q.pc \in {"staged", "resolved", "transcribed", "cleaned", "raised"}

\* the event loop is free for request r to start or to resume
EventLoopFree(r) == \A o \in Reqs \ {r} : ~Running(req[o])

\* the name of a temporary file
TempName(i) == [tmp |-> i]

\* a NamedTemporaryFile that hands out one name again and again
FreshName_Reused == TempName(1)

\* tempfile.NamedTemporaryFile: a name no temporary file has had
FreshName ==
  TempName(Min({i \in 1..NumReqs :
                 TempName(i) \notin disk \cup {req[o].temp_file : o \in Reqs}}))

Manager == [model |-> _model, size |-> _model_size, device |-> _device]

\* _create_temp_file after file.read(): the exception raised inside the with
\* block, None when the content is written and the name returned.
\* content is the length read; io_error: file.read() or the write raises
StagingError(content, io_error) ==
  IF io_error THEN [type |-> "OSError", str |-> "I/O error"]
  ELSE IF content > max_file_size THEN FileTooLarge
  ELSE NoObject

\* _create_temp_file: `except Exception as e` turns whatever was raised
\* inside the try block into the same HTTPException
StagingFailure(e) == FailedToProcess

\* transcribe_file up to `await file.read()`: validate_file, then
\* NamedTemporaryFile(delete=False) creates the file (created: it can)
Call(r) ==
  /\ req[r].pc = "new"
  /\ EventLoopFree(r)
  /\ \E filename \in Filenames, created \in BOOLEAN :
       LET v == validate_file(filename) IN
       IF v # NoObject
         THEN /\ req' = [req EXCEPT ![r] =
                          [@ EXCEPT !.pc = "failed", !.failure = v, !.exc = v]]
              /\ disk' = disk
         ELSE IF ~created
           THEN LET e == [type |-> "OSError", str |-> "I/O error"] IN
                /\ req' = [req EXCEPT ![r] =
                            [@ EXCEPT !.pc = "failed", !.exc = e,
                                      !.failure = StagingFailure(e)]]
                /\ disk' = disk
           ELSE /\ req' = [req EXCEPT ![r] =
                            [@ EXCEPT !.pc = "read", !.temp_file = FreshName]]
                /\ disk' = disk \cup {FreshName}
  /\ UNCHANGED <<_model, _model_size, _device, caller, api, text, cleaned, recleaned, cpc>>

\* Read with the model resolved before the outcome of staging is known
Read_LoadsBeforeStaging(r) ==
  /\ req[r].pc = "read"
  /\ EventLoopFree(r)
  /\ \E content \in PayloadLengths, io_error \in BOOLEAN,
        model_size \in ModelSize, ok \in BOOLEAN :
       LET e   == StagingError(content, io_error)
           res == load_model_by_size(Manager, model_size, ok)
       IN /\ req' = [req EXCEPT ![r] =
                      IF e # NoObject
                        THEN [@ EXCEPT !.pc = "failed", !.exc = e,
                                       !.failure = StagingFailure(e)]
                        ELSE [@ EXCEPT !.pc = "staged"]]
          /\ _model' = res.model
          /\ _model_size' = res.size
          /\ _device' = res.device
  /\ UNCHANGED <<disk, caller, api, text, cleaned, recleaned, cpc>>

\* _create_temp_file from the return of file.read() on: the size check, the
\* write, and the except clause; the with block closes the file and, being
\* delete=False, leaves it on disk
Read(r) ==
  /\ req[r].pc = "read"
  /\ EventLoopFree(r)
  /\ \E content \in PayloadLengths, io_error \in BOOLEAN :
       LET e == StagingError(content, io_error) IN
       req' = [req EXCEPT ![r] =
                IF e # NoObject
                  THEN [@ EXCEPT !.pc = "failed", !.exc = e,
                                 !.failure = StagingFailure(e)]
                  ELSE [@ EXCEPT !.pc = "staged"]]
  /\ UNCHANGED <<_model, _model_size, _device, disk, caller, api, text, cleaned, recleaned, cpc>>

\* ResolveCall going by the quality level whatever the model size
ResolveCall_QualityFirst(quality, model_size) ==
  <<"load_quality_model", quality>>

\* transcribe_file, "Get appropriate model": which manager operation is
\* called, and with what
ResolveCall(quality, model_size) ==
  IF model_size # None
    THEN <<"load_model_by_size", model_size>>
    ELSE <<"load_quality_model", quality>>

\* the manager operation of a call, run on manager state m
RunResolveCall(m, call, ok) ==
  IF call[1] = "load_model_by_size"
    THEN load_model_by_size(m, call[2], ok)
    ELSE load_quality_model(m, call[2], None, ok)

\* transcribe_file, model resolution.  The request's quality and model_size
\* are drawn here, where they are first read
Resolve(r) ==
  /\ req[r].pc = "staged"
  /\ \E quality \in QualityLevel, model_size \in ModelSize \cup {None},
        ok \in BOOLEAN :
       LET call == ResolveCall(quality, model_size)
           res  == RunResolveCall(Manager, call, ok)
       IN /\ _model' = res.model
          /\ _model_size' = res.size
          /\ _device' = res.device
          /\ req' = [req EXCEPT ![r] =
                      [@ EXCEPT !.pc = "resolved", !.quality = quality,
                                !.model_size = model_size, !.via = call[1],
                                !.asked = res.selected, !.load = res.load,
                                !.current_model = res.ret,
                                !.gpu = @ \o res.gpu]]
  /\ UNCHANGED <<disk, caller, api, text, cleaned, recleaned, cpc>>

\* _get_transcription_options asking for per-word timing
_get_transcription_options_WordTimestamps(device) ==
  [fp16 |-> device = "cuda", verbose |-> FALSE, temperature |-> 0,
   no_speech_threshold |-> "0.6", logprob_threshold |-> "-1.0",
   compression_ratio_threshold |-> "2.4",
   condition_on_previous_text |-> FALSE, word_timestamps |-> TRUE]

\* TranscriptionService._get_transcription_options; the decimal numbers are
\* kept as they are written
_get_transcription_options(device) ==
  [fp16 |-> device = "cuda", verbose |-> FALSE, temperature |-> 0,
   no_speech_threshold |-> "0.6", logprob_threshold |-> "-1.0",
   compression_ratio_threshold |-> "2.4",
   condition_on_previous_text |-> FALSE, word_timestamps |-> FALSE]

\* BeforeRecognition without the call of cleanup_gpu_memory
BeforeRecognition_SkipsCleanup(device) == _log_gpu_memory(device)

\* _perform_transcription before the recognition call
BeforeRecognition(device) ==
  IF device = "cuda"
    THEN cleanup_gpu_memory(device) \o _log_gpu_memory(device)
    ELSE <<>>

\* _perform_transcription after a recognition call that returned
AfterRecognition(device) ==
  IF device = "cuda"
    THEN _log_gpu_memory(device) \o cleanup_gpu_memory(device)
    ELSE <<>>

\* _perform_transcription after a recognition call that raised: the except
\* clauses only log and raise
AfterFailedRecognition(device) == <<>>

\* _perform_transcription: the HTTPException raised for exception e
RecognitionFailure(e) ==
  IF e.type = "FileNotFoundError"
    THEN HTTPException(500,
           <<"FFmpeg is required but not found. Please install FFmpeg">>)
  ELSE IF MentionsFfmpeg(e)
    THEN HTTPException(500,
           <<"FFmpeg error occurred. Please ensure FFmpeg is properly installed">>)
  ELSE HTTPException(500, <<"Transcription failed: ", e.str>>)

\* a recognition call made on the manager's model of the moment
RecognitionModel_ManagersCurrent(q, m) == m.model

\* the model whose transcribe is called: the `model` parameter, which
\* transcribe_file binds to its local current_model; m is the manager
RecognitionModel(q, m) == q.current_model

\* _perform_transcription, whole: it holds no await.  The locals the rest
\* of transcribe_file never reads are dropped
Transcribe(r) ==
  /\ req[r].pc = "resolved"
  /\ LET q   == [req[r] EXCEPT !.quality = None, !.model_size = None,
                                 !.asked = None, !.via = None, !.load = None]
         pre == q.gpu \o BeforeRecognition(_device) \o <<"transcribe">>
         transcribe_options == _get_transcription_options(_device)
     IN \/ \E out \in TranscriptTexts :
             req' = [req EXCEPT ![r] =
                      [q EXCEPT !.pc = "transcribed", !.transcription = out,
                                !.used_model = RecognitionModel(q, Manager),
                                !.options = transcribe_options,
                                !.gpu = pre \o AfterRecognition(_device)]]
        \/ \E e \in RecognitionErrors :
             req' = [req EXCEPT ![r] =
                      [q EXCEPT !.pc = "raised", !.exc = e,
                                !.used_model = RecognitionModel(q, Manager),
                                !.options = transcribe_options,
                                !.failure = RecognitionFailure(e),
                                !.gpu = pre \o AfterFailedRecognition(_device)]]
  /\ UNCHANGED <<_model, _model_size, _device, disk, caller, api, text, cleaned, recleaned, cpc>>

\* cleaned_transcription = self.text_cleaner.clean_text(transcription)
CleanTranscription(r) ==
  /\ req[r].pc = "transcribed"
  /\ req' = [req EXCEPT ![r] =
              [@ EXCEPT !.pc = "cleaned", !.result = clean_text(req[r].transcription)]]
  /\ UNCHANGED <<_model, _model_size, _device, disk, caller, api, text, cleaned, recleaned, cpc>>

\* _cleanup_temp_file: the files on disk afterwards; unlinked: os.unlink
\* succeeds (its failure is logged and swallowed)
_cleanup_temp_file(files, file_path, unlinked) ==
  IF file_path \in files /\ unlinked THEN files \ {file_path} ELSE files

\* AfterCleanup letting the failure of os.unlink out of the finally clause
AfterCleanup_Escalates(q, unlinked) ==
  IF unlinked
    THEN Returned(q, IF q.pc = "cleaned" THEN "done" ELSE "failed")
    ELSE [Returned(q, "failed") EXCEPT
            !.result = None,
            !.exc = [type |-> "OSError", str |-> "I/O error"],
            !.failure = HTTPException(500, <<"Internal server error">>)]

\* the request once _cleanup_temp_file has run in the finally clause: the
\* pending return or raise goes on, whether os.unlink succeeded or its
\* exception was caught and logged
AfterCleanup(q, unlinked) ==
  Returned(q, IF q.pc = "cleaned" THEN "done" ELSE "failed")

\* the finally clause of transcribe_file, then the return or the raise
Finally(r) ==
  /\ req[r].pc \in {"cleaned", "raised"}
  /\ \E unlinked \in BOOLEAN :
       /\ disk' = _cleanup_temp_file(disk, req[r].temp_file, unlinked)
       /\ req' = [req EXCEPT ![r] = AfterCleanup(@, unlinked)]
  /\ UNCHANGED <<_model, _model_size, _device, caller, api, text, cleaned, recleaned, cpc>>

CleanerIdle == text = <<>> /\ cleaned = None /\ recleaned = None /\ cpc = "off"

\* the service once TranscriptionAPI._initialize_services has built the
\* manager: the default model is loaded on the device found
Init ==
  /\ _device \in {"cuda", "cpu"}
  /\ _model = Handle(whisper_model, _device)
  /\ _model_size = whisper_model
  /\ req = [r \in Reqs |-> NewRequest]
  /\ disk = {}
  /\ caller = <<>>
  /\ api = "serving"
  /\ CleanerIdle

Next ==
  \E r \in Reqs :
    \/ Call(r)
    \/ Read(r)
    \/ Resolve(r)
    \/ Transcribe(r)
    \/ CleanTranscription(r)
    \/ Finally(r)

Spec == Init /\ [][Next]_vars

\* WhisperModelManager.__init__ before self._initialize(), and NumCallers
\* callers yet to call the manager
InitManager ==
  /\ api = "constructing"
  /\ _device = None
  /\ _model = NoObject
  /\ _model_size = None
  /\ caller = [c \in Callers |-> NewCaller]
  /\ req = <<>>
  /\ disk = {}
  /\ CleanerIdle

NextManager ==
  \/ _initialize_services
  \/ \E c \in Callers :
       \/ CallLoadModel(c)
       \/ CallLoadQualityModel(c)
       \/ CallLoadModelBySize(c)
       \/ CallCleanupGpuMemory(c)
       \/ CallGetDeviceInfo(c)

SpecManager == InitManager /\ [][NextManager]_vars

(***************************************************************************)
(* Claims about the orchestrator                                           *)
(***************************************************************************)
\* control is back with the caller of transcribe_file
BackWithCaller(q) == q.pc \in {"done", "failed"}

\* C1: after any run of transcribe_file, whether it returned text or failed
\* at any step, no temporary file created for the request remains on disk
\* when control is back with the caller.
C1_NoTempFileRemains ==
  \A r \in Reqs : BackWithCaller(req[r]) => req[r].temp_file \notin disk

\* the failure kind a caller sees in an HTTPException; a message that puts
\* the failure on FFmpeg and tells to install it is CodecUnavailable
FailureKind(f) ==
  CASE f.status_code = 400 /\ f.detail[1] = "File too large. Maximum size: "
         -> "PayloadTooLarge"
    [] f.status_code = 400 /\ f.detail[1] = "Unsupported file format "
         -> "UnsupportedFormat"
    [] f.status_code = 400 -> "InvalidInput"
    [] f.detail[1] \in
         {"FFmpeg is required but not found. Please install FFmpeg",
          "FFmpeg error occurred. Please ensure FFmpeg is properly installed"}
         -> "CodecUnavailable"
    [] f.detail[1] = "Transcription failed: " -> "TranscriptionFailed"
    [] OTHER -> "InternalError"

\* C2: staging a payload longer than max_file_size fails with the
\* PayloadTooLarge kind, not with a generic internal failure.
C2_OversizeIsPayloadTooLarge ==
  \A r \in Reqs :
    (req[r].pc = "failed" /\ req[r].exc = FileTooLarge)
      => FailureKind(req[r].failure) = "PayloadTooLarge"

\* C7: for a request with an explicit model size the orchestrator asks the
\* manager for that size, whatever the quality level; the quality table
\* gives the size only when no explicit size is given.
C7_ExplicitSizeTakesPrecedence ==
  \A r \in Reqs :
    req[r].pc = "resolved" =>
      IF req[r].model_size # None
        THEN /\ req[r].asked = ModelSizeValue[req[r].model_size]
             /\ req[r].via = "load_model_by_size"
        ELSE /\ req[r].asked = quality_models[req[r].quality]
             /\ req[r].via = "load_quality_model"

\* a request with an explicit size that its quality level would not give
C7_Witness ==
  \E r \in Reqs :
    /\ req[r].pc = "resolved"
    /\ req[r].model_size = "LARGE"
    /\ req[r].quality = "FAST"
    /\ req[r].asked = "large-v3"

\* the cache was cleared after the recognition call
ClearedAfterRecognition(gpu) ==
  \E i, j \in 1..Len(gpu) :
    i < j /\ gpu[i] = "transcribe" /\ gpu[j] = "empty_cache"

\* C8: on cuda the cache clear that follows the recognition call has run on
\* every exit of _perform_transcription, the return and the raise.
C8_CacheClearedOnEveryExit ==
  \A r \in Reqs :
    (_device = "cuda" /\ req[r].pc \in {"transcribed", "raised"})
      => ClearedAfterRecognition(req[r].gpu)

\* the recognition call failed for want of the decode tool: the ffmpeg
\* executable was not found
ToolMissing(e) == e.type = "FileNotFoundError"

\* C15: a recognition call that fails because the decode tool is missing
\* gives CodecUnavailable; any other failure of the recognition call gives
\* TranscriptionFailed.
C15_OnlyMissingToolIsCodecUnavailable ==
  \A r \in Reqs :
    (req[r].pc \in {"raised", "failed"} /\ req[r].exc \in RecognitionErrors)
      => FailureKind(req[r].failure) =
           (IF ToolMissing(req[r].exc) THEN "CodecUnavailable"
                                       ELSE "TranscriptionFailed")

\* the exceptions raised below the orchestrator, each with its str(e)
InternalExceptions ==
  RecognitionErrors \cup {[type |-> "OSError", str |-> "I/O error"]}

\* C16: no failure that reaches the caller carries the text of the
\* exception underneath it: no piece of its message is that exception's
\* str(e).
C16_NoExceptionTextSurfaces ==
  \A r \in Reqs :
    (req[r].pc \in {"raised", "failed"} /\ req[r].exc \in InternalExceptions)
      => \A k \in DOMAIN req[r].failure.detail :
           req[r].failure.detail[k] # req[r].exc.str

\* the stages of a request that ends with a text, in order: Received is
\* "new" and "read", Transcribing ends at "transcribed"
StageOrder ==
  <<"new", "read", "staged", "resolved", "transcribed", "cleaned", "done">>

\* a request at stage a may be at stage b one step later
MayFollow(a, b) ==
  \/ a = b
  \/ \E k \in 1..(Len(StageOrder) - 1) : a = StageOrder[k] /\ b = StageOrder[k + 1]
  \/ a \notin {"done", "failed", "raised"} /\ b \in {"raised", "failed"}
  \/ a = "raised" /\ b = "failed"

\* C17: a request goes through its stages in order, one at a time, and
\* leaves them only to fail; it ends either done, with the text clean_text
\* returned and no failure, or failed, with a failure and no text.
C17_StagesInOrderOneOutcome ==
  [][\A r \in Reqs :
       /\ MayFollow(req[r].pc, req'[r].pc)
       /\ (req[r].pc = "transcribed" /\ req'[r].pc = "cleaned")
            => req'[r].result = clean_text(req[r].transcription)
       /\ req'[r].pc = "done"
            => /\ req'[r].result # None
               /\ req'[r].result = req[r].result
               /\ req'[r].failure = NoObject
       /\ req'[r].pc = "failed"
            => /\ req'[r].failure # NoObject
               /\ req'[r].result = None]_vars

\* one request has ended with a text and another with a failure
C17_Witness ==
  \E a, b \in Reqs :
    /\ req[a].pc = "done" /\ req[a].result = <<"l", "a", " ", "l", "a">>
    /\ req[a].failure = NoObject
    /\ req[b].pc = "failed" /\ req[b].result = None
    /\ FailureKind(req[b].failure) = "TranscriptionFailed"

\* the step is the finally clause of request r
FinallyOf(r) ==
  req[r].pc \in {"cleaned", "raised"} /\ req'[r].pc \in {"done", "failed"}

\* C18: whether or not the temporary file could be deleted, a run that had
\* its cleaned text returns that text, and a run that was failing raises
\* the failure it had; the failed deletion is not raised.
C18_DeletionFailureKeepsOutcome ==
  [][\A r \in Reqs :
       FinallyOf(r) =>
         /\ req'[r].pc = (IF req[r].pc = "cleaned" THEN "done" ELSE "failed")
         /\ req'[r].result = req[r].result
         /\ req'[r].failure = req[r].failure]_vars

\* the temporary files of two requests could not be deleted: one request
\* returned its text all the same, the other raised its own failure
C18_Witness ==
  \E a, b \in Reqs :
    /\ req[a].pc = "done" /\ req[a].result # None /\ req[a].temp_file \in disk
    /\ req[b].pc = "failed" /\ req[b].exc \in RecognitionErrors
    /\ req[b].failure = RecognitionFailure(req[b].exc)
    /\ req[b].temp_file \in disk

\* the filenames validate_file rejects
RejectedFilenames == {f \in Filenames : validate_file(f) # NoObject}

\* the step is request r failing in validate_file
RejectedCall(r) ==
  /\ req[r].pc = "new"
  /\ req'[r].pc = "failed"
  /\ req'[r].exc \in {validate_file(f) : f \in RejectedFilenames}

\* C14: a request with an empty filename fails with InvalidInput, one with
\* an extension outside supported_formats fails with UnsupportedFormat, and
\* either fails with no temporary file created and the manager not called.
C14_ValidationFailsFast ==
  [][\A r \in Reqs :
       RejectedCall(r) =>
         /\ \A f \in RejectedFilenames :
              req'[r].exc = validate_file(f) =>
                FailureKind(req'[r].failure) =
                  (IF f = "" THEN "InvalidInput" ELSE "UnsupportedFormat")
         /\ req'[r].temp_file = NoObject
         /\ disk' = disk
         /\ req'[r].via = None /\ req'[r].current_model = NoObject
         /\ _model' = _model /\ _model_size' = _model_size]_vars

\* one request was rejected for its empty filename and another for its
\* extension, and neither has a temporary file
C14_Witness ==
  \E a, b \in Reqs :
    /\ req[a].pc = "failed" /\ req[a].exc = validate_file("")
    /\ FailureKind(req[a].failure) = "InvalidInput"
    /\ req[b].pc = "failed" /\ req[b].exc = validate_file("notes.txt")
    /\ FailureKind(req[b].failure) = "UnsupportedFormat"
    /\ req[a].temp_file = NoObject /\ req[b].temp_file = NoObject

(***************************************************************************)
(* Claims about the manager                                                *)
(***************************************************************************)
\* caller c has returned from load_model_by_size
BySize(c) == caller[c].pc = "done" /\ caller[c].op = "load_model_by_size"

\* callers a and b, and only they, have made their calls: load_model_by_size
\* with two different sizes, neither load failing
TwoSwapsDone(a, b) ==
  /\ a # b
  /\ BySize(a) /\ BySize(b)
  /\ caller[a].selected # caller[b].selected
  /\ caller[a].load # "failed" /\ caller[b].load # "failed"
  /\ \A c \in Callers \ {a, b} : caller[c].pc = "new"

\* C3: after two concurrent load_model_by_size calls with different sizes,
\* in whichever order they ran, the current model is the model of one of
\* the two and the recorded size is that model's size.
C3_NoTornState ==
  \A a, b \in Callers :
    TwoSwapsDone(a, b) =>
      /\ _model \in {caller[a].ret, caller[b].ret}
      /\ _model_size = _model.weights
      /\ _model_size \in {caller[a].selected, caller[b].selected}

\* both calls loaded their model, caller b before caller a, whose model is
\* the current one
C3_Witness ==
  \E a, b \in Callers :
    /\ TwoSwapsDone(a, b)
    /\ a < b
    /\ caller[a].load = "ok" /\ caller[b].load = "ok"
    /\ _model = caller[a].ret

\* the step is caller c's call of load_model_by_size or load_quality_model,
\* from entry to return
CallOf(c) ==
  /\ caller[c].pc = "new" /\ caller'[c].pc = "done"
  /\ caller'[c].op \in {"load_model_by_size", "load_quality_model"}

\* C4: a call of load_model_by_size or load_quality_model whose load fails
\* returns the handle that was current and leaves the current handle and
\* the recorded size as they were.
C4_FailedLoadKeepsPrevious ==
  [][\A c \in Callers :
       (CallOf(c) /\ caller'[c].load = "failed")
         => /\ caller'[c].ret = _model
            /\ _model' = _model
            /\ _model_size' = _model_size]_vars

\* both operations have had a failed load and the model they returned is
\* the current one
C4_Witness ==
  \E a, b \in Callers :
    /\ BySize(a) /\ caller[a].load = "failed"
    /\ caller[b].pc = "done" /\ caller[b].op = "load_quality_model"
    /\ caller[b].load = "failed"
    /\ caller[a].ret = _model /\ caller[b].ret = _model

\* C5: a call of load_quality_model or load_model_by_size that loads a size
\* other than the current one makes the loaded model the current handle and
\* its size the recorded size.
C5_LoadedModelBecomesCurrent ==
  [][\A c \in Callers :
       (CallOf(c) /\ caller'[c].load = "ok")
         => /\ _model' = caller'[c].ret
            /\ _model_size' = caller'[c].selected]_vars

\* C6: a call of load_quality_model or load_model_by_size that resolves to
\* the recorded size returns the current handle, does not call the loader
\* and changes nothing in the manager.
C6_CachedSizeIsNotReloaded ==
  [][\A c \in Callers :
       (CallOf(c) /\ caller'[c].selected = _model_size)
         => /\ caller'[c].load = "none"
            /\ caller'[c].ret = _model
            /\ _model' = _model
            /\ _model_size' = _model_size]_vars

\* both operations have been asked for the size that was current
C6_Witness ==
  \E a, b \in Callers :
    /\ BySize(a) /\ caller[a].load = "none"
    /\ caller[b].pc = "done" /\ caller[b].op = "load_quality_model"
    /\ caller[b].load = "none"
    /\ caller[a].ret = _model /\ caller[b].ret = _model

(***************************************************************************)
(* The cleaner run on bounded inputs: a text is up to MaxRuns runs, each   *)
(* one word repeated, joined by single spaces; clean_text is applied       *)
(* once, then once more to its own result.                                 *)
(***************************************************************************)
MaxRuns == 2

RunWords == {<<"x">>, <<"z">>, <<"l","a">>, <<"h","e","l","l","o">>}
RunCounts == {1, 3, 6, 9, 13}

RECURSIVE RunsWords(_)
\* the words of a sequence of runs <<word, count>>
RunsWords(runs) ==
  IF runs = <<>> THEN <<>>
  ELSE [k \in 1..runs[1][2] |-> runs[1][1]] \o RunsWords(Tail(runs))

Inputs ==
  {Join(RunsWords(runs)) :
     runs \in UNION {[1..n -> RunWords \X RunCounts] : n \in 1..MaxRuns}}

ServiceIdle ==
  /\ _model = None /\ _model_size = None /\ _device = None
  /\ req = <<>> /\ disk = {} /\ caller = <<>> /\ api = None

InitClean ==
  /\ text \in Inputs
  /\ cleaned = None
  /\ recleaned = None
  /\ cpc = "raw"
  /\ ServiceIdle

\* text_cleaner.clean_text(transcription)
Clean ==
  /\ cpc = "raw"
  /\ cleaned' = clean_text(text)
  /\ cpc' = "cleaned"
  /\ UNCHANGED <<text, recleaned, _model, _model_size, _device, req, disk, caller, api>>

\* clean_text applied to a text clean_text returned
CleanAgain ==
  /\ cpc = "cleaned"
  /\ recleaned' = clean_text(cleaned)
  /\ cpc' = "recleaned"
  /\ UNCHANGED <<text, cleaned, _model, _model_size, _device, req, disk, caller, api>>

NextClean == Clean \/ CleanAgain

SpecClean == InitClean /\ [][NextClean]_vars

(***************************************************************************)
(* The cleaner run on chosen texts: None, the empty text, texts that hold  *)
(* a credit phrase, and texts that hold one long run of a short token.     *)
(***************************************************************************)
\* "Subtitles created by the Amara.org community"
AmaraCredit ==
  <<"S","u","b","t","i","t","l","e","s"," ","c","r","e","a","t","e","d"," ",
    "b","y"," ","t","h","e"," ","A","m","a","r","a",".","o","r","g"," ",
    "c","o","m","m","u","n","i","t","y">>

\* str.upper() of one character
Upper(c) ==
  IF c \in LowerLetters THEN CHOOSE u \in UpperLetters : LowerOf[u] = c ELSE c

\* the credit phrase as written, in lower case and in upper case
AmaraCredits ==
  { AmaraCredit,
    [k \in 1..Len(AmaraCredit) |-> Lower(AmaraCredit[k])],
    [k \in 1..Len(AmaraCredit) |-> Upper(AmaraCredit[k])] }

\* what comes before a credit phrase
CreditLeads == { <<>>, <<"o","h"," ">>, <<"h","e","l","l","o"," ","y","o","u","\n">> }

\* the further text that follows a credit phrase
CreditTails ==
  { <<" ","h","e","l","l","o">>,
    <<" ","h","e","l","l","o"," ","w","o","r","l","d">>,
    <<".","\n","l","a"," ","l","a">>,
    <<" ","q","t","s","s",".", " ","h","e","l","l","o">>,
    <<" ","h","e","l","l","o"," ","q","t","s","s"," ","w","o","r","l","d">> }

CreditInputs ==
  {lead \o credit \o tail :
     lead \in CreditLeads, credit \in AmaraCredits, tail \in CreditTails}

\* the tokens of the long runs, of 1 to 3 characters
RunTokens ==
  { <<"x">>, <<"l","a">>, <<"L","A">>, <<"a","b","c">>, <<"l","a",".">> }

\* how many times a token is repeated
RunLengths == {11, 13}

\* what comes before and after a long run
RunLeads == { <<>>, <<"h","e","l","l","o"," ">>, <<"l","a"," ">> }
RunTails == { <<>>, <<" ","w","o","r","l","d">> }

RunInputs ==
  {lead \o Join([k \in 1..n |-> token]) \o tail :
     lead \in RunLeads, token \in RunTokens, n \in RunLengths, tail \in RunTails}

\* texts that end in a run of one letter
LetterLeads ==
  { <<"h","e","l","l","o"," ">>,
    <<"o","n","e"," ","t","w","o"," ">>,
    <<"h","e","l","l","o"," ","t","h","e","r","e"," ","m","y"," ","f","r","i","e","n","d"," ">> }
LetterTokens == { <<"a">>, <<"B">> }
LetterRunLengths == {3, 4, 6}
LetterTails == { <<>>, <<" ">> }

LetterRunInputs ==
  {lead \o Join([k \in 1..n |-> token]) \o tail :
     lead \in LetterLeads, token \in LetterTokens, n \in LetterRunLengths,
     tail \in LetterTails}

\* texts with whitespace at their ends and in runs
WhitespaceInputs ==
  { <<" ">>, <<"\n","\n">>,
    <<"h","e","l","l","o","\t","w","o","r","l","d">>,
    <<"h","e","l","l","o"," "," ","w","o","r","l","d">>,
    <<"\t","h","e","l","l","o"," ","w","o","r","l","d","\n">>,
    <<" "," ","h","e","l","l","o"," ","\n","\t"," ","w","o","r","l","d"," "," ">>,
    <<"nbsp","l","a","\r","\n","l","a","nbsp">> }

TextInputs ==
  {<<>>} \cup CreditInputs \cup RunInputs \cup LetterRunInputs \cup WhitespaceInputs

InitTexts ==
  /\ (text = None \/ text \in TextInputs)
  /\ cleaned = None
  /\ recleaned = None
  /\ cpc = "raw"
  /\ ServiceIdle

SpecTexts == InitTexts /\ [][NextClean]_vars

(***************************************************************************)
(* Claims about the cleaner                                                *)
(***************************************************************************)
\* C9: clean_text is idempotent: cleaning a cleaned text returns it unchanged.
C9_CleanIsIdempotent == cpc = "recleaned" => recleaned = cleaned

\* the text has more than 4 words and its final word repeats more than 5
\* times consecutively at the very end
EndsInLongRepetition(t) ==
  LET words == Split(t) IN
  Len(words) > 4 /\ RepetitionCount(words, Len(words)) > 5

\* the words before the trailing repetition, then the repeated word once
OneTrailingOccurrence(t) ==
  LET words == Split(t) IN
  SubSeq(words, 1, Len(words) - RepetitionCount(words, Len(words)) + 1)

\* C10 as stated: a text of more than 4 words whose final word repeats more
\* than 5 times at the end is cleaned to its preceding words followed by
\* exactly one occurrence of that word, whatever the length of the word.
C10_TrailingRunCollapsesToOne ==
  (cpc # "raw" /\ EndsInLongRepetition(text))
    => Split(cleaned) = OneTrailingOccurrence(text)

\* the credit removal and the short-token collapses leave the text as it is
EarlierPassesIdle(t) ==
  _remove_repetitive_patterns(_remove_subtitle_credits(t)) = t

\* C10 amended: a text of more than 4 words whose final word repeats more
\* than 5 times at the end, and which the credit removal and the short-token
\* collapses leave unchanged, is cleaned to its preceding words followed by
\* exactly one occurrence of that word.
C10_TrailingRunCollapsesWhenNoEarlierPass ==
  (cpc # "raw" /\ EndsInLongRepetition(text) /\ EarlierPassesIdle(text))
    => Split(cleaned) = OneTrailingOccurrence(text)

\* a cleaned text of several words that ended in a long repetition which no
\* earlier pass touched
C10_Witness ==
  /\ cpc = "cleaned"
  /\ EndsInLongRepetition(text)
  /\ EarlierPassesIdle(text)
  /\ Len(Split(cleaned)) >= 2

\* the credit phrase occurs in t, in any letter case, with text after it
HoldsAmaraCredit(t) ==
  LET p == FindFrom(t, 1, AmaraCredit) IN
  p > 0 /\ p + Len(AmaraCredit) <= Len(t)

\* t with the first occurrence of the credit phrase taken out
WithoutAmaraCredit(t) ==
  LET p == FindFrom(t, 1, AmaraCredit) IN
  SubSeq(t, 1, p - 1) \o SubSeq(t, p + Len(AmaraCredit), Len(t))

\* C11: a text that holds "Subtitles created by the Amara.org community" in
\* any letter case, followed by further text, is cleaned to a text without
\* the phrase that keeps the words of the remaining text.
C11_AmaraCreditIsRemoved ==
  (cpc # "raw" /\ text # None /\ HoldsAmaraCredit(text))
    => /\ FindFrom(cleaned, 1, AmaraCredit) = 0
       /\ Split(cleaned) = Split(WithoutAmaraCredit(text))

\* the runs of words: <<i, j>> when words i..j are one token of at most 3
\* characters, 11 or more times, with another word or none on either side
LongRuns(words) ==
  LET n == Len(words) IN
  { run \in (1..n) \X (1..n) :
      LET i == run[1]
          j == run[2]
      IN /\ j - i + 1 >= 11
         /\ Len(words[i]) <= 3
         /\ \A k \in i..j : words[k] = words[i]
         /\ (i = 1 \/ words[i - 1] # words[i])
         /\ (j = n \/ words[j + 1] # words[i]) }

\* words with the run left as its first word only
RunReduced(words, run) ==
  SubSeq(words, 1, run[1]) \o SubSeq(words, run[2] + 1, Len(words))

LowerWord(w) == [k \in 1..Len(w) |-> Lower(w[k])]

\* the token of the run is made of word characters, and the words next to
\* the run differ from it even when letter case is ignored
WordRun(words, run) ==
  LET i == run[1]
      j == run[2]
  IN /\ \A k \in 1..Len(words[i]) : IsWordChar(words[i][k])
     /\ (i = 1 \/ LowerWord(words[i - 1]) # LowerWord(words[i]))
     /\ (j = Len(words) \/ LowerWord(words[j + 1]) # LowerWord(words[i]))

C13_CleanIsTotal ==
  cpc # "raw" =>
    IF text = None THEN cleaned = None
    ELSE /\ cleaned # None
         /\ Len(cleaned) <= Len(text)
         /\ (text = <<>> => cleaned = <<>>)

\* None has been cleaned
C13_Witness == cpc = "cleaned" /\ text = None /\ cleaned = None

(***************************************************************************)
(* Claims about the construction of the manager and its device             *)
(***************************************************************************)
\* C19: constructing the manager loads the default size; where that load
\* fails the construction fails, and no manager without a model ever
\* serves a call.
C19_NoManagerWithoutModel ==
  [][/\ (api = "constructing" /\ api' = "serving")
          => /\ _model' = Handle(whisper_model, _device')
             /\ _model_size' = whisper_model
     /\ (api = "constructing" /\ _model' = NoObject) => api' = "failed"
     /\ api # "serving" => \A c \in Callers : caller'[c].pc = "new"
     /\ api' = "serving" => _model' # NoObject]_vars

\* the default load failed: the construction failed and nothing is served
C19_Witness ==
  /\ api = "failed"
  /\ _model = NoObject
  /\ _model_size = whisper_model
  /\ \A c \in Callers : caller[c].pc = "new"

\* C20: the device chosen at construction is not changed by any call of
\* load_model, load_quality_model, load_model_by_size, cleanup_gpu_memory
\* or get_device_info, whether its load succeeds or fails.
C20_DeviceIsFixed ==
  [][/\ api = "serving" => _device' = _device
     /\ api = "constructing" => _device' \in {"cuda", "cpu"}]_vars

\* on the accelerator, one caller's load_model has failed and another's
\* load_model_by_size has loaded its model
C20_Witness ==
  /\ _device = "cuda"
  /\ \E a, b \in Callers :
       /\ caller[a].op = "load_model" /\ caller[a].load = "failed"
       /\ caller[b].op = "load_model_by_size" /\ caller[b].load = "ok"

(***************************************************************************)
(* Claims about the quality table                                          *)
(***************************************************************************)
\* the Whisper weight sets by growing size
SizeRank ==
  [n \in {"tiny", "base", "small", "medium", "large-v3"} |->
     CASE n = "tiny" -> 1 [] n = "base" -> 2 [] n = "small" -> 3
       [] n = "medium" -> 4 [] n = "large-v3" -> 5]

\* the sizes the service offers: those of the quality table and those a
\* request can name
OfferedSizes ==
  {quality_models[q] : q \in QualityLevel} \cup {ModelSizeValue[m] : m \in ModelSize}

\* the quality levels from fast to best
QualityRank ==
  [q \in QualityLevel |->
     CASE q = "FAST" -> 1 [] q = "BALANCED" -> 2 [] q = "HIGH" -> 3 [] q = "BEST" -> 4]

\* caller c has returned from load_quality_model called with no model size
ByQuality(c) ==
  /\ caller[c].pc = "done"
  /\ caller[c].op = "load_quality_model"
  /\ caller[c].model_size = None

\* C21: with no explicit size load_quality_model resolves fast to the
\* smallest and best to the largest of the sizes the service offers, and a
\* higher quality level to a strictly larger size.
C21_QualityTiersIncrease ==
  \A c \in Callers :
    ByQuality(c) =>
      /\ caller[c].quality = "FAST"
           => \A n \in OfferedSizes : SizeRank[caller[c].selected] <= SizeRank[n]
      /\ caller[c].quality = "BEST"
           => \A n \in OfferedSizes : SizeRank[n] <= SizeRank[caller[c].selected]
      /\ \A d \in Callers :
           (ByQuality(d) /\ QualityRank[caller[c].quality] < QualityRank[caller[d].quality])
             => SizeRank[caller[c].selected] < SizeRank[caller[d].selected]

(***************************************************************************)
(* Claims about trailing letters and whitespace                            *)
(***************************************************************************)
\* the text ends in 3 or more consecutive occurrences of one single-letter
\* word
EndsInLetterRun(t) ==
  LET words == Split(t) IN
  /\ Len(words) >= 3
  /\ Len(words[Len(words)]) = 1
  /\ IsLetter(words[Len(words)][1])
  /\ RepetitionCount(words, Len(words)) >= 3

\* the words before the trailing run
BeforeTrailingRun(t) ==
  LET words == Split(t) IN
  SubSeq(words, 1, Len(words) - RepetitionCount(words, Len(words)))

\* C22: a text of any number of words that ends in a run of 3 or more
\* occurrences of the same single-letter word is cleaned to the words before
\* that run.
C22_TrailingLetterRunStripped ==
  (cpc # "raw" /\ text # None /\ EndsInLetterRun(text))
    => Split(cleaned) = BeforeTrailingRun(text)

\* the text has whitespace at one of its ends, or whitespace that is not a
\* single space between two other characters
LooseWhitespace(t) ==
  \E i \in 1..Len(t) :
    /\ IsSpace(t[i])
    /\ \/ i = 1
       \/ i = Len(t)
       \/ t[i] # " "
       \/ IsSpace(t[i - 1])

\* C23: the output of clean_text for a non-empty input has no whitespace at
\* its ends, and every whitespace character inside it is one space between
\* two characters that are not whitespace.
C23_WhitespaceIsNormalised ==
  (cpc # "raw" /\ text # None /\ text # <<>>) => ~LooseWhitespace(cleaned)

\* a text with whitespace at both ends and a run of several whitespace
\* characters inside has been cleaned to words separated by spaces
C23_Witness ==
  /\ cpc = "cleaned"
  /\ text # None
  /\ Len(text) > 2
  /\ IsSpace(text[1])
  /\ IsSpace(text[Len(text)])
  /\ \E i \in 3..(Len(text) - 1) :
       IsSpace(text[i]) /\ IsSpace(text[i - 1]) /\ ~IsSpace(text[i - 2])
  /\ \E i \in 1..Len(cleaned) : cleaned[i] = " "

(***************************************************************************)
(* Claims about the accelerator calls of a request                         *)
(***************************************************************************)
\* how many of the first n entries of an accelerator log are cache clears
ClearsBefore(gpu, n) ==
  Cardinality({j \in 1..(n - 1) : gpu[j] = "empty_cache"})

\* C24: on the CPU a request makes no cache clear and no memory query; on the
\* accelerator exactly one cache clear precedes a request's recognition call.
C24_AcceleratorCallsFollowDevice ==
  \A r \in Reqs :
    /\ _device = "cpu"
         => \A i \in 1..Len(req[r].gpu) :
              req[r].gpu[i] \notin {"empty_cache", "memory_query"}
    /\ _device = "cuda"
         => \A i \in 1..Len(req[r].gpu) :
              req[r].gpu[i] = "transcribe" => ClearsBefore(req[r].gpu, i) = 1

\* on the accelerator a request that loaded its model by size, reading the
\* memory counters, has made its recognition call
C24_Witness ==
  /\ _device = "cuda"
  /\ \E r \in Reqs :
       /\ req[r].pc = "transcribed"
       /\ Len(req[r].gpu) > 3
       /\ req[r].gpu[1] = "memory_query"
       /\ \E i \in 1..Len(req[r].gpu) : req[r].gpu[i] = "transcribe"

(***************************************************************************)
(* Claims about the temporary files of concurrent requests                 *)
(***************************************************************************)
\* request r has created its temporary file
HasTempFile(r) == req[r].temp_file # NoObject

\* no two requests have the same temporary file
DistinctTempFiles ==
  \A a, b \in Reqs :
    (a # b /\ HasTempFile(a) /\ HasTempFile(b))
      => req[a].temp_file # req[b].temp_file

\* the file of a request between Staged and its finally clause is on disk
StagedFilesOnDisk ==
  \A r \in Reqs : Running(req[r]) => req[r].temp_file \in disk

\* C25: concurrent requests stage distinct temporary files, and the file of
\* a request leaves the disk only in that request's own cleanup, so it is on
\* disk from Staged to the end of the request's recognition call.
C25_CleanupDeletesOwnFileOnly ==
  [][/\ DistinctTempFiles'
     /\ StagedFilesOnDisk'
     /\ \A r \in Reqs :
          (HasTempFile(r) /\ req[r].temp_file \in disk
             /\ req[r].temp_file \notin disk')
            => (req[r].pc \in {"cleaned", "raised"}
                  /\ req'[r].pc \in {"done", "failed"})]_vars

\* request b created its file first and waited for its upload while request
\* a ran to its end and deleted its own file; b is now past Staged with its
\* file on disk
C25_Witness ==
  \E a, b \in Reqs :
    /\ a # b
    /\ req[a].pc = "done"
    /\ req[a].temp_file = TempName(2)
    /\ req[a].temp_file \notin disk
    /\ req[b].pc = "resolved"
    /\ req[b].temp_file = TempName(1)
    /\ req[b].temp_file \in disk

(***************************************************************************)
(* Claims about the decoding options                                       *)
(***************************************************************************)
\* request r makes its recognition call in this step
Recognises(r) == req[r].pc = "resolved" /\ req'[r].pc # "resolved"

\* C26: the decoding options of a recognition call are the same whatever the
\* request's quality level and model size: temperature 0, no-speech
\* threshold 0.6, log-probability floor -1.0, compression-ratio ceiling 2.4,
\* no context carry-over, no per-word timing; requests on one device get the
\* same options altogether.
C26_DecodingOptionsAreFixed ==
  [][\A r \in Reqs :
       Recognises(r) =>
         /\ req'[r].options.temperature = 0
         /\ req'[r].options.no_speech_threshold = "0.6"
         /\ req'[r].options.logprob_threshold = "-1.0"
         /\ req'[r].options.compression_ratio_threshold = "2.4"
         /\ req'[r].options.condition_on_previous_text = FALSE
         /\ req'[r].options.word_timestamps = FALSE
         /\ req'[r].options.verbose = FALSE
         /\ req'[r].options.fp16 = (_device = "cuda")
         /\ DOMAIN req'[r].options =
              {"fp16", "verbose", "temperature", "no_speech_threshold",
               "logprob_threshold", "compression_ratio_threshold",
               "condition_on_previous_text", "word_timestamps"}]_vars

\* a request that asked for the largest model by size has made its
\* recognition call with it
C26_Witness ==
  \E r \in Reqs :
    /\ req[r].pc = "transcribed"
    /\ req[r].options # NoObject
    /\ req[r].used_model = Handle("large-v3", _device)

(***************************************************************************)
(* Claims about the recorded size and the handle                           *)
(***************************************************************************)
\* C27: after construction and any sequence of succeeding or failing
\* load_model, load_quality_model and load_model_by_size calls, the size that
\* get_device_info reports is the weight set of the current model handle.
C27_RecordedSizeNamesCurrentModel ==
  api = "serving" => get_device_info(Manager).model_size = _model.weights

(***************************************************************************)
(* Claims about the handle a request transcribes with                      *)
(***************************************************************************)
\* C28: a request's recognition call is made on the handle that its model
\* resolution returned, whatever the manager's current model has become, and
\* that handle does not change between resolution and the call.
C28_RecognitionUsesResolvedHandle ==
  [][\A r \in Reqs :
       /\ Recognises(r) => req'[r].used_model = req[r].current_model
       /\ (req[r].pc = "resolved" /\ req'[r].pc = "resolved")
            => req'[r].current_model = req[r].current_model]_vars

\* a request has made its recognition call on a handle that is not the
\* manager's current model
C28_Witness ==
  \E r \in Reqs :
    /\ req[r].pc = "transcribed"
    /\ req[r].used_model # NoObject
    /\ req[r].used_model # _model

(***************************************************************************)
(* Claims about requests that fail before model resolution                 *)
(***************************************************************************)
\* request r fails in validation or in staging in this step
FailsBeforeResolution(r) ==
  req[r].pc \in {"new", "read"} /\ req'[r].pc = "failed"

\* C29: a request that fails in validation or in staging leaves the
\* manager's current handle, recorded size and device as they were and makes
\* no model load.
C29_EarlyFailureLeavesManagerAlone ==
  [][\A r \in Reqs :
       FailsBeforeResolution(r) =>
         /\ _model' = _model
         /\ _model_size' = _model_size
         /\ _device' = _device
         /\ req'[r].load = None
         /\ req'[r].via = None
         /\ req'[r].current_model = NoObject]_vars

\* one request has failed in validation, before any temporary file, and
\* another in staging, after its temporary file was created
C29_Witness ==
  \E a, b \in Reqs :
    /\ a # b
    /\ req[a].pc = "failed"
    /\ req[a].temp_file = NoObject
    /\ req[a].failure # NoObject
    /\ req[a].failure # FailedToProcess
    /\ req[b].pc = "failed"
    /\ req[b].temp_file # NoObject
    /\ req[b].failure = FailedToProcess

====
